---- MODULE Spec2Model ----
(***************************************************************************)
(* GPU admission: the share-mode evaluator (pkg/algorithm/share.go) and    *)
(* the allocator (pkg/algorithm/allocate.go).                              *)
(*                                                                         *)
(* The evaluator's float64 arithmetic is modelled in exact arithmetic: a   *)
(* normalized, weighted matrix entry w*x/sqrt(S) is never formed; the      *)
(* squared distances sum_c w_c^2 (x - a_c)^2 / S_c are kept as numerators  *)
(* over one common denominator, in arbitrary-precision naturals, and two   *)
(* relative closenesses are compared by cross-multiplication.  0/0 is NaN, *)
(* as in Go, and every comparison with NaN is false.  Rounding of float64  *)
(* is not modelled.                                                        *)
(***************************************************************************)
EXTENDS Integers, Sequences, FiniteSets, TLC

VARIABLES
    nodeInfo,   \* device.NodeInfo: the device map, the node's vmemory capacity
                \* and the usage booked on the node
    pod,        \* the workload descriptor the caller holds
    call,       \* the last allocator call: what it did and what it returned
    hist,       \* the allocator calls made so far, oldest first
    clock,      \* time.Now().UnixNano()
    evalReq,    \* SpecEval: the request handed to shareMode.Evaluate
    evalOut,    \* SpecEval: what shareMode.Evaluate produced
    conc        \* SpecConc: the AllocateOne calls in progress on the node

vars == <<nodeInfo, pod, call, hist, clock, evalReq, evalOut, conc>>

----------------------------------------------------------------------------
(* Bounds *)

MaxDev == 3
MaxContainers == 2
MaxCalls == 2
MaxFault == 2
NumProcs == 2
MaxRaise == 1

(* Program constants *)

HundredCore == 100

----------------------------------------------------------------------------
(* Arbitrary-precision naturals: little-endian digit sequences.  float64   *)
(* holds the magnitudes below without overflow; TLC's integers do not.     *)

Base == 100 * 100

RECURSIVE BigOf(_)
BigOf(n) == IF n < Base THEN <<n>> ELSE <<n % Base>> \o BigOf(n \div Base)

RECURSIVE BigAddC(_, _, _)
BigAddC(a, b, carry) ==
    IF a = <<>> /\ b = <<>>
    THEN IF carry = 0 THEN <<>> ELSE <<carry>>
    ELSE LET x == IF a = <<>> THEN 0 ELSE Head(a)
             y == IF b = <<>> THEN 0 ELSE Head(b)
             s == x + y + carry
         IN  <<s % Base>> \o BigAddC(IF a = <<>> THEN a ELSE Tail(a),
                                     IF b = <<>> THEN b ELSE Tail(b),
                                     s \div Base)

BigAdd(a, b) == BigAddC(a, b, 0)

RECURSIVE BigMulDigit(_, _, _)
BigMulDigit(a, d, carry) ==
    IF a = <<>>
    THEN IF carry = 0 THEN <<>> ELSE <<carry>>
    ELSE LET s == Head(a) * d + carry
         IN  <<s % Base>> \o BigMulDigit(Tail(a), d, s \div Base)

RECURSIVE BigMul(_, _)
BigMul(a, b) ==
    IF b = <<>> THEN <<>>
    ELSE BigAdd(BigMulDigit(a, Head(b), 0), <<0>> \o BigMul(a, Tail(b)))

RECURSIVE BigTrim(_)
BigTrim(a) ==
    IF a # <<>> /\ a[Len(a)] = 0 THEN BigTrim(SubSeq(a, 1, Len(a) - 1)) ELSE a

BigIsZero(a) == BigTrim(a) = <<>>

RECURSIVE BigLessT(_, _)
BigLessT(a, b) ==   \* a, b trimmed and of equal length
    IF a = <<>> THEN FALSE
    ELSE IF a[Len(a)] # b[Len(b)] THEN a[Len(a)] < b[Len(b)]
    ELSE BigLessT(SubSeq(a, 1, Len(a) - 1), SubSeq(b, 1, Len(b) - 1))

BigLess(a, b) ==
    LET x == BigTrim(a)
        y == BigTrim(b)
    IN  IF Len(x) # Len(y) THEN Len(x) < Len(y) ELSE BigLessT(x, y)

----------------------------------------------------------------------------
(* A local variable: v is computed once and F reads the value *)

Bind(v, F(_)) == CHOOSE y \in { F(x) : x \in {v} } : TRUE

----------------------------------------------------------------------------
(* device.DeviceInfo as this code reads it *)

Device(id, cores, mem, isolated, containers) ==
    [id |-> id, cores |-> cores, mem |-> mem,
     isolated |-> isolated, containers |-> containers]

DeviceCount(ds) == Cardinality(DOMAIN ds)

(* device.ByAllocatableCores, device.ByAllocatableMemory, device.ByID *)
ByAllocatableCores(a, b) == a.cores < b.cores
ByAllocatableMemory(a, b) == a.mem < b.mem
ByID(a, b) == a.id < b.id

(* The chain without its last predicate: allocatable memory decides last *)
LessFuncNoID(k, a, b) ==
    CASE k = 1 -> ByAllocatableCores(a, b)
      [] OTHER -> ByAllocatableMemory(a, b)

LessFunc(k, a, b) ==
    CASE k = 1 -> ByAllocatableCores(a, b)
      [] k = 2 -> ByAllocatableMemory(a, b)
      [] OTHER -> ByID(a, b)

NumLess == 3

(* shareModePriority.Less: the first predicate that orders the pair decides;
   the last one decides what is left. *)
RECURSIVE LessFrom(_, _, _)
LessFrom(k, a, b) ==
    IF k >= NumLess THEN LessFunc(k, a, b)
    ELSE IF LessFunc(k, a, b) THEN TRUE
    ELSE IF LessFunc(k, b, a) THEN FALSE
    ELSE LessFrom(k + 1, a, b)

Less(a, b) == LessFrom(1, a, b)

(* shareModePriority.Sort over tmpStore, filled by id 0 .. deviceCount-1 *)
RECURSIVE TmpStoreTo(_, _)
TmpStoreTo(ds, i) ==
    IF i = 0 THEN <<>> ELSE Append(TmpStoreTo(ds, i - 1), ds[i - 1])

TmpStore(ds) == TmpStoreTo(ds, DeviceCount(ds))

Sort(data) == SortSeq(data, Less)

(* What sort.Sort may leave in data: sort.Sort is not stable, and promises
   only a permutation of data in which no element is Less than the one
   before it *)
SortResults(data) ==
    LET n == Len(data)
        perms == { f \in [1..n -> 1..n] : \A i, j \in 1..n : f[i] = f[j] => i = j }
    IN  { s \in { [j \in 1..n |-> data[f[j]]] : f \in perms } :
            \A j \in 1..(n - 1) : ~Less(s[j + 1], s[j]) }

----------------------------------------------------------------------------
(* shareMode.Evaluate *)

NumCol == 4

(* weight, in tenths *)
Weight == <<3, 3, 2, 2>>

ITime(estimatedTime, dev) ==
    LET itime == estimatedTime - dev.isolated
    IN  IF itime < 0 THEN 0 ELSE itime

RECURSIVE DecisionRows(_, _, _)
DecisionRows(store, estimatedTime, j) ==
    IF j = 0 THEN <<>>
    ELSE Append(DecisionRows(store, estimatedTime, j - 1),
                <<store[j].cores, store[j].mem,
                  ITime(estimatedTime, store[j]), store[j].containers>>)

DecisionMatrix(store, estimatedTime) ==
    DecisionRows(store, estimatedTime, Len(store))

(* tmp1[c]^2: the squared Euclidean norm of column c *)
RECURSIVE SumSq(_, _, _)
SumSq(dm, c, j) ==
    IF j = 0 THEN 0 ELSE SumSq(dm, c, j - 1) + dm[j][c] * dm[j][c]

(* The running extremes of lines 100-138 over column c, on the raw column:
   the normalized entry is the raw one times w/sqrt(S) > 0, or 0 for all
   rows when S = 0, so the row holding each extreme is the same. *)
RECURSIVE RunMax(_, _, _)
RunMax(dm, c, i) ==
    IF i = 1 THEN dm[1][c]
    ELSE Bind(RunMax(dm, c, i - 1),
              LAMBDA m : IF m < dm[i][c] THEN dm[i][c] ELSE m)

RECURSIVE RunMin(_, _, _)
RunMin(dm, c, i) ==
    IF i = 1 THEN dm[1][c]
    ELSE Bind(RunMin(dm, c, i - 1),
              LAMBDA m : IF m > dm[i][c] THEN dm[i][c] ELSE m)

(* Amax taking the maximum of every column, the container count too *)
AmaxAllBenefit(dm, c) == RunMax(dm, c, Len(dm))

(* Amax: the maximum of columns 0..2, the minimum of column 3 *)
Amax(dm, c) ==
    IF c < NumCol THEN RunMax(dm, c, Len(dm)) ELSE RunMin(dm, c, Len(dm))

(* Amin taking the minimum of every column, the container count too *)
AminAllBenefit(dm, c) == RunMin(dm, c, Len(dm))

(* Amin: the minimum of columns 0..2, the maximum of column 3 *)
Amin(dm, c) ==
    IF c < NumCol THEN RunMin(dm, c, Len(dm)) ELSE RunMax(dm, c, Len(dm))

(* The product of the nonzero squared norms of the columns other than c *)
RECURSIVE OtherNorms(_, _, _)
OtherNorms(S, c, k) ==
    IF k = 0 THEN <<1>>
    ELSE IF k = c \/ S[k] = 0 THEN OtherNorms(S, c, k - 1)
    ELSE BigMul(OtherNorms(S, c, k - 1), BigOf(S[k]))

(* Column c's share of a squared distance is w_c^2 (x - a)^2 / S_c: K[c] is
   what multiplies w_c^2 (x - a)^2 in the numerator over the common
   denominator 100 * (the product of the nonzero squared norms); a column
   of norm 0 is all 0 after line 93 and adds nothing. *)
RECURSIVE Scales(_, _)
Scales(S, c) ==
    IF c = 0 THEN <<>>
    ELSE Append(Scales(S, c - 1),
                IF S[c] = 0 THEN <<>> ELSE BigTrim(OtherNorms(S, c, NumCol)))

(* sum over columns of (decisionMatrix[i][c] - A[c])^2, as that numerator *)
RECURSIVE DistSq(_, _, _, _)
DistSq(row, K, A, c) ==
    IF c = 0 THEN <<>>
    ELSE BigAdd(DistSq(row, K, A, c - 1),
                BigMul(K[c], BigOf(Weight[c] * Weight[c]
                                   * (row[c] - A[c]) * (row[c] - A[c]))))

RECURSIVE ClosenessRows(_, _, _, _, _)
ClosenessRows(dm, K, ideal, anti, i) ==
    IF i = 0 THEN <<>>
    ELSE Append(ClosenessRows(dm, K, ideal, anti, i - 1),
                [smmax2 |-> BigTrim(DistSq(dm[i], K, ideal, NumCol)),
                 smmin2 |-> BigTrim(DistSq(dm[i], K, anti, NumCol))])

RECURSIVE Columns(_, _, _)
Columns(F(_), dm, c) ==
    IF c = 0 THEN <<>> ELSE Append(Columns(F, dm, c - 1), F(c))

(* RC[i] = SMmin[i] / (SMmax[i] + SMmin[i]), kept as the two squared
   distances *)
Closeness(dm) ==
    Bind(<<Scales(Columns(LAMBDA c : SumSq(dm, c, Len(dm)), dm, NumCol), NumCol),
           Columns(LAMBDA c : Amax(dm, c), dm, NumCol),
           Columns(LAMBDA c : Amin(dm, c), dm, NumCol)>>,
         LAMBDA t : ClosenessRows(dm, t[1], t[2], t[3], Len(dm)))

IsNaN(rc) == rc.smmax2 = <<>> /\ rc.smmin2 = <<>>

(* float64 a > b on two relative closenesses *)
Greater(a, b) ==
    /\ ~IsNaN(a)
    /\ ~IsNaN(b)
    /\ BigLess(BigMul(b.smmin2, a.smmax2), BigMul(a.smmin2, b.smmax2))

(* lines 158-164: the index of maxdev after the first i rows *)
RECURSIVE MaxIndex(_, _)
MaxIndex(RC, i) ==
    IF i = 1 THEN 1
    ELSE Bind(MaxIndex(RC, i - 1),
              LAMBDA m : IF Greater(RC[i], RC[m]) THEN i ELSE m)

(* shareMode.Evaluate: the devices returned, or a panic (decisionMatrix[0]
   of an empty matrix, line 76); RC is the local of that name, one relative
   closeness per row of tmpStore *)
EvaluateSorted(tmpStore, estimatedTime) ==
    Bind(DecisionMatrix(tmpStore, estimatedTime),
         LAMBDA decisionMatrix :
            IF Len(decisionMatrix) = 0
            THEN [panic |-> TRUE, devs |-> <<>>, RC |-> <<>>]
            ELSE Bind(Closeness(decisionMatrix),
                      LAMBDA RC :
                        [panic |-> FALSE,
                         devs |-> <<tmpStore[MaxIndex(RC, Len(RC))].id>>,
                         RC |-> RC]))

(* Evaluate with the capacity filter of lines 165-171 active: the first
   device of the ordering that holds the request, or none *)
RECURSIVE FirstFit(_, _, _, _)
FirstFit(store, cores, memory, j) ==
    IF j > Len(store) THEN <<>>
    ELSE IF store[j].cores >= cores /\ store[j].mem >= memory
    THEN <<store[j].id>>
    ELSE FirstFit(store, cores, memory, j + 1)

EvaluateFiltered(ds, cores, memory, estimatedTime) ==
    Bind(Sort(TmpStore(ds)),
         LAMBDA tmpStore :
            [panic |-> Len(tmpStore) = 0,
             devs |-> FirstFit(tmpStore, cores, memory, 1),
             RC |-> EvaluateSorted(tmpStore, estimatedTime).RC])

Evaluate(ds, cores, memory, estimatedTime) ==
    Bind(Sort(TmpStore(ds)),
         LAMBDA tmpStore : EvaluateSorted(tmpStore, estimatedTime))

----------------------------------------------------------------------------
(* The node/device registry (package device) *)

RECURSIVE SumOver(_, _, _)
SumOver(F(_), ds, n) ==
    IF n = 0 THEN 0 ELSE SumOver(F, ds, n - 1) + F(ds[n - 1])

(* A node of devices ds, each of deviceMemory vmemory: the node's capacity
   and the usage booked on it so far *)
NodeInfo(ds, deviceMemory) ==
    [devs |-> ds,
     totalMemory |-> deviceMemory * DeviceCount(ds),
     usedCore |-> SumOver(LAMBDA d : HundredCore - d.cores, ds, DeviceCount(ds)),
     usedMemory |-> SumOver(LAMBDA d : deviceMemory - d.mem, ds, DeviceCount(ds))]

(* NodeInfo.AddUsedResources: books vcore and vmemory on device devID for a
   new container.  The registry refuses a booking the device cannot hold,
   and may refuse one for reasons of its own (fault). *)
AddUsedResources(ni, devID, vcore, vmemory, time, fault) ==
    LET dev == ni.devs[devID]
    IN  IF fault \/ vcore > dev.cores \/ vmemory > dev.mem
        THEN [ni |-> ni, err |-> TRUE]
        ELSE [ni |-> [ni EXCEPT
                        !.devs[devID].cores = @ - vcore,
                        !.devs[devID].mem = @ - vmemory,
                        !.devs[devID].containers = @ + 1,
                        !.usedCore = @ + vcore,
                        !.usedMemory = @ + vmemory],
              err |-> FALSE]

(* exclusiveMode.Evaluate: the first cores/100 wholly free devices of the
   comparator ordering, or none when there are too few *)
RECURSIVE FreeDevices(_, _)
FreeDevices(store, j) ==
    IF j = 0 THEN <<>>
    ELSE FreeDevices(store, j - 1) \o
         (IF store[j].cores = HundredCore THEN <<store[j].id>> ELSE <<>>)

ExclusiveEvaluate(ds, cores, memory) ==
    Bind(Sort(TmpStore(ds)),
         LAMBDA store :
            Bind(FreeDevices(store, Len(store)),
                 LAMBDA free :
                    IF Len(free) >= cores \div HundredCore
                    THEN SubSeq(free, 1, cores \div HundredCore)
                    ELSE <<>>))

----------------------------------------------------------------------------
(* Request attributes (package util) *)

Container(gpu, cores, memory, estimatedTime, estErr) ==
    [gpu |-> gpu, cores |-> cores, memory |-> memory,
     estimatedTime |-> estimatedTime, estErr |-> estErr]

IsGPURequiredContainer(c) == c.gpu

GetEstimatedTimeOfContainer(p, containerIndex) ==
    LET c == p.containers[containerIndex + 1]
    IN  [value |-> IF c.estErr THEN 0 ELSE c.estimatedTime, err |-> c.estErr]

----------------------------------------------------------------------------
(* allocator.AllocateOne *)

(* The commit loop undoing its bookings when a device refuses *)
RECURSIVE CommitLoopRollback(_, _, _, _, _, _, _, _)
CommitLoopRollback(ni, ids, k, vcore, vmemory, time, nAdds, fault) ==
    IF k > Len(ids) THEN [ni |-> ni, adds |-> <<>>, err |-> FALSE]
    ELSE Bind(AddUsedResources(ni, ids[k], vcore, vmemory, time,
                               fault = nAdds + k),
              LAMBDA r :
                LET rec == [dev |-> ids[k], vcore |-> vcore,
                            vmemory |-> vmemory, time |-> time, err |-> r.err]
                IN  IF r.err
                    THEN [ni |-> ni, adds |-> <<rec>>, err |-> TRUE]
                    ELSE Bind(CommitLoopRollback(r.ni, ids, k + 1, vcore,
                                                 vmemory, time, nAdds, fault),
                              LAMBDA rest :
                                [ni |-> IF rest.err THEN ni ELSE rest.ni,
                                 adds |-> <<rec>> \o rest.adds,
                                 err |-> rest.err]))

(* lines 132-140: one AddUsedResources per returned device, in order; the
   first refusal ends the loop.  nAdds counts the AddUsedResources calls the
   enclosing allocator call made before this loop. *)
RECURSIVE CommitLoop(_, _, _, _, _, _, _, _)
CommitLoop(ni, ids, k, vcore, vmemory, time, nAdds, fault) ==
    IF k > Len(ids) THEN [ni |-> ni, adds |-> <<>>, err |-> FALSE]
    ELSE Bind(AddUsedResources(ni, ids[k], vcore, vmemory, time,
                               fault = nAdds + k),
              LAMBDA r :
                LET rec == [dev |-> ids[k], vcore |-> vcore,
                            vmemory |-> vmemory, time |-> time, err |-> r.err]
                IN  IF r.err
                    THEN [ni |-> r.ni, adds |-> <<rec>>, err |-> TRUE]
                    ELSE Bind(CommitLoop(r.ni, ids, k + 1, vcore, vmemory,
                                         time, nAdds, fault),
                              LAMBDA rest :
                                [ni |-> rest.ni, adds |-> <<rec>> \o rest.adds,
                                 err |-> rest.err]))

(* Dispatch with the threshold off by one: 100 cores still go to share mode *)
DispatchInclusive(ni, needCores, needMemory, estimatedTime) ==
    IF needCores <= HundredCore
    THEN [evaluator |-> "share",
          args |-> <<needCores, needMemory, estimatedTime>>,
          devs |-> Evaluate(ni.devs, needCores, needMemory, estimatedTime).devs]
    ELSE [evaluator |-> "exclusive",
          args |-> <<needCores, needMemory>>,
          devs |-> ExclusiveEvaluate(ni.devs, needCores, needMemory)]

(* lines 110-116: which evaluator runs, and with which arguments *)
Dispatch(ni, needCores, needMemory, estimatedTime) ==
    IF needCores < HundredCore
    THEN [evaluator |-> "share",
          args |-> <<needCores, needMemory, estimatedTime>>,
          devs |-> Evaluate(ni.devs, needCores, needMemory, estimatedTime).devs]
    ELSE [evaluator |-> "exclusive",
          args |-> <<needCores, needMemory>>,
          devs |-> ExclusiveEvaluate(ni.devs, needCores, needMemory)]

(* lines 130-134: the elapsed time handed to AddUsedResources *)
CommitTime(estimatedTime) == estimatedTime

(* What one AllocateOne call did: the container, the evaluator it ran and
   with which arguments, the devices the evaluator returned, the quantities
   to book, the AddUsedResources calls made, what it returned (devs, err;
   named is the container the error message of line 119 names, by index, -1
   when there is no such message) and the registry it left (ni). *)
CallRecord(ni, containerIndex) ==
    [index |-> containerIndex, evaluator |-> "none", args |-> <<>>,
     evaluated |-> <<>>, vcore |-> 0, vmemory |-> 0,
     adds |-> <<>>, devs |-> <<>>, err |-> "none", named |-> -1, ni |-> ni]

(* AllocateOne booking the requested memory in exclusive mode too *)
AllocateWithRequestedMemory(ni, containerIndex, container, estimatedTime, nAdds, fault) ==
    Bind(Dispatch(ni, container.cores, container.memory, estimatedTime),
         LAMBDA d :
        LET sharedMode == d.evaluator = "share"
            vcore == IF sharedMode THEN container.cores ELSE HundredCore
            vmemory == container.memory
            picked == [CallRecord(ni, containerIndex) EXCEPT
                         !.evaluator = d.evaluator, !.args = d.args,
                         !.evaluated = d.devs]
        IN  IF Len(d.devs) = 0
            THEN [picked EXCEPT !.err = "nodevice", !.named = containerIndex]
            ELSE Bind(CommitLoop(ni, d.devs, 1, vcore, vmemory,
                                 CommitTime(estimatedTime), nAdds, fault),
                      LAMBDA c :
                        [picked EXCEPT !.vcore = vcore, !.vmemory = vmemory,
                                    !.adds = c.adds, !.ni = c.ni,
                                    !.err = IF c.err THEN "commit" ELSE "none",
                                    !.devs = IF c.err THEN <<>> ELSE d.devs]))

(* AllocateOne without the test of lines 118-120: an empty result goes on
   to the commit loop *)
AllocateWithNoEmptyCheck(ni, containerIndex, container, estimatedTime, nAdds, fault) ==
    Bind(Dispatch(ni, container.cores, container.memory, estimatedTime),
         LAMBDA d :
        LET deviceTotalMemory == ni.totalMemory \div DeviceCount(ni.devs)
            sharedMode == d.evaluator = "share"
            vcore == IF sharedMode THEN container.cores ELSE HundredCore
            vmemory == IF sharedMode THEN container.memory ELSE deviceTotalMemory
            picked == [CallRecord(ni, containerIndex) EXCEPT
                         !.evaluator = d.evaluator, !.args = d.args,
                         !.evaluated = d.devs]
        IN  Bind(CommitLoop(ni, d.devs, 1, vcore, vmemory,
                            CommitTime(estimatedTime), nAdds, fault),
                 LAMBDA c :
                    [picked EXCEPT !.vcore = vcore, !.vmemory = vmemory,
                                   !.adds = c.adds, !.ni = c.ni,
                                   !.err = IF c.err THEN "commit" ELSE "none",
                                   !.devs = IF c.err THEN <<>> ELSE d.devs]))

(* lines 110-141: AllocateOne once the estimated time is known *)
AllocateWith(ni, containerIndex, container, estimatedTime, nAdds, fault) ==
    Bind(Dispatch(ni, container.cores, container.memory, estimatedTime),
         LAMBDA d :
        LET deviceTotalMemory == ni.totalMemory \div DeviceCount(ni.devs)
            sharedMode == d.evaluator = "share"
            vcore == IF sharedMode THEN container.cores ELSE HundredCore
            vmemory == IF sharedMode THEN container.memory ELSE deviceTotalMemory
            picked == [CallRecord(ni, containerIndex) EXCEPT
                         !.evaluator = d.evaluator, !.args = d.args,
                         !.evaluated = d.devs]
        IN  IF Len(d.devs) = 0
            THEN [picked EXCEPT !.err = "nodevice",
                                !.named = containerIndex] \* lines 118-120
            ELSE Bind(CommitLoop(ni, d.devs, 1, vcore, vmemory,
                                 CommitTime(estimatedTime), nAdds, fault),
                      LAMBDA c :
                        [picked EXCEPT !.vcore = vcore, !.vmemory = vmemory,
                                    !.adds = c.adds, !.ni = c.ni,
                                    !.err = IF c.err THEN "commit" ELSE "none",
                                    !.devs = IF c.err THEN <<>> ELSE d.devs]))

(* AllocateOne going on with the zero value after a failed lookup *)
AllocateOneUnchecked(ni, p, containerIndex, container, nAdds, fault) ==
    AllocateWith(ni, containerIndex, container,
                 GetEstimatedTimeOfContainer(p, containerIndex).value,
                 nAdds, fault)

AllocateOne(ni, p, containerIndex, container, nAdds, fault) ==
    LET est == GetEstimatedTimeOfContainer(p, containerIndex)
    IN  IF DeviceCount(ni.devs) = 0
        THEN [CallRecord(ni, containerIndex) EXCEPT !.err = "panic"] \* line 99
        ELSE IF est.err
        THEN [CallRecord(ni, containerIndex) EXCEPT !.err = "lookup"] \* 106-108
        ELSE AllocateWith(ni, containerIndex, container, est.value, nAdds, fault)

RECURSIVE CountAdds(_)
CountAdds(trace) ==
    IF trace = <<>> THEN 0
    ELSE Len(trace[Len(trace)].adds) + CountAdds(SubSeq(trace, 1, Len(trace) - 1))

----------------------------------------------------------------------------
(* allocator.IsAllocatable: the loop from container i (1-based) on *)

(* The loop without the break of line 51: later containers are still tried *)
RECURSIVE IsAllocatableNoBreak(_, _, _, _, _)
IsAllocatableNoBreak(ni, p, i, trace, fault) ==
    IF i > Len(p.containers)
    THEN [ni |-> ni, trace |-> trace,
          allocatable |-> \A j \in 1..Len(trace) : trace[j].err = "none"]
    ELSE IF ~IsGPURequiredContainer(p.containers[i])
    THEN IsAllocatableNoBreak(ni, p, i + 1, trace, fault)
    ELSE Bind(AllocateOne(ni, p, i - 1, p.containers[i],
                          CountAdds(trace), fault),
              LAMBDA r :
                IsAllocatableNoBreak(r.ni, p, i + 1, Append(trace, r), fault))

RECURSIVE IsAllocatableFrom(_, _, _, _, _)
IsAllocatableFrom(ni, p, i, trace, fault) ==
    IF i > Len(p.containers)
    THEN [ni |-> ni, trace |-> trace, allocatable |-> TRUE]
    ELSE IF ~IsGPURequiredContainer(p.containers[i])
    THEN IsAllocatableFrom(ni, p, i + 1, trace, fault)
    ELSE Bind(AllocateOne(ni, p, i - 1, p.containers[i],
                          CountAdds(trace), fault),
              LAMBDA r :
                IF r.err # "none"
                THEN [ni |-> r.ni, trace |-> Append(trace, r),
                      allocatable |-> FALSE]
                ELSE IsAllocatableFrom(r.ni, p, i + 1, Append(trace, r), fault))

(* IsAllocatable as a dry run: the bookings are dropped on return *)
IsAllocatableDryRun(ni, p, fault) ==
    [IsAllocatableFrom(ni, p, 1, <<>>, fault) EXCEPT !.ni = ni]

IsAllocatable(ni, p, fault) == IsAllocatableFrom(ni, p, 1, <<>>, fault)

----------------------------------------------------------------------------
(* allocator.Allocate *)

(* strconv.Itoa, as the string's characters *)
Digit(d) ==
    CASE d = 0 -> "0" [] d = 1 -> "1" [] d = 2 -> "2" [] d = 3 -> "3"
      [] d = 4 -> "4" [] d = 5 -> "5" [] d = 6 -> "6" [] d = 7 -> "7"
      [] d = 8 -> "8" [] OTHER -> "9"

RECURSIVE Itoa(_)
Itoa(n) == IF n < 10 THEN <<Digit(n)>> ELSE Itoa(n \div 10) \o <<Digit(n % 10)>>

(* strings.Join(devIDs, ",") *)
RECURSIVE Join(_)
Join(strs) ==
    IF strs = <<>> THEN <<>>
    ELSE IF Len(strs) = 1 THEN strs[1]
    ELSE strs[1] \o <<",">> \o Join(Tail(strs))

DevIDs(ids) == [k \in 1..Len(ids) |-> Itoa(ids[k])]

PredicateGPUIndexPrefix(i) == <<"PredicateGPUIndexPrefix">> \o Itoa(i)

(* annotations: a map, as a set of <<key, value>> with one value per key *)
SetAnnotation(ann, key, value) ==
    { kv \in ann : kv[1] # key } \cup { <<key, value>> }

(* The loop of Allocate handing every container the registry as it was when
   Allocate was called: the bookings for earlier containers are not seen *)
RECURSIVE AllocateFromStale(_, _, _, _, _, _)
AllocateFromStale(ni, p, newPod, i, trace, fault) ==
    IF i > Len(newPod.containers)
    THEN [ni |-> IF trace = <<>> THEN ni ELSE trace[Len(trace)].ni,
          trace |-> trace, newPod |-> newPod, err |-> "none"]
    ELSE IF ~IsGPURequiredContainer(newPod.containers[i])
    THEN AllocateFromStale(ni, p, newPod, i + 1, trace, fault)
    ELSE Bind(AllocateOne(ni, p, i - 1, newPod.containers[i],
                          CountAdds(trace), fault),
              LAMBDA r :
                IF r.err # "none"
                THEN [ni |-> r.ni, trace |-> Append(trace, r),
                      newPod |-> newPod, err |-> r.err]
                ELSE AllocateFromStale(ni, p,
                       [newPod EXCEPT !.annotations =
                           SetAnnotation(@, PredicateGPUIndexPrefix(i - 1),
                                         Join(DevIDs(r.devs)))],
                       i + 1, Append(trace, r), fault))

RECURSIVE AllocateFrom(_, _, _, _, _, _)
AllocateFrom(ni, p, newPod, i, trace, fault) ==
    IF i > Len(newPod.containers)
    THEN [ni |-> ni, trace |-> trace, newPod |-> newPod, err |-> "none"]
    ELSE IF ~IsGPURequiredContainer(newPod.containers[i])
    THEN AllocateFrom(ni, p, newPod, i + 1, trace, fault)
    ELSE Bind(AllocateOne(ni, p, i - 1, newPod.containers[i],
                          CountAdds(trace), fault),
              LAMBDA r :
                IF r.err # "none"
                THEN [ni |-> r.ni, trace |-> Append(trace, r),
                      newPod |-> newPod, err |-> r.err]
                ELSE AllocateFrom(r.ni, p,
                       [newPod EXCEPT !.annotations =
                           SetAnnotation(@, PredicateGPUIndexPrefix(i - 1),
                                         Join(DevIDs(r.devs)))],
                       i + 1, Append(trace, r), fault))

(* pod.DeepCopy(): the copy shares nothing with the caller's descriptor *)
DeepCopy(p) == p

Nil == [containers |-> <<>>, annotations |-> {}, nil |-> TRUE]

(* Allocate undoing the bookings of the call when a container fails *)
AllocateRollback(ni, p, now, fault) ==
    Bind(AllocateFrom(ni, p, DeepCopy(p), 1, <<>>, fault), LAMBDA r :
        IF r.err # "none"
        THEN [ni |-> ni, trace |-> r.trace, pod |-> p, newPod |-> Nil,
              err |-> r.err]
        ELSE [ni |-> r.ni, trace |-> r.trace, pod |-> p,
              newPod |-> r.newPod, err |-> "none"])

(* Allocate writing the annotations on the caller's descriptor: no copy *)
AllocateInPlace(ni, p, now, fault) ==
    Bind(AllocateFrom(ni, p, p, 1, <<>>, fault), LAMBDA r :
    LET a1 == SetAnnotation(r.newPod.annotations, <<"PredicateNode">>, <<"node">>)
        a2 == SetAnnotation(a1, <<"GPUAssigned">>, <<"false">>)
        a3 == SetAnnotation(a2, <<"PredicateTimeAnnotation">>, Itoa(now))
    IN  IF r.err # "none"
        THEN [ni |-> r.ni, trace |-> r.trace, pod |-> r.newPod, newPod |-> Nil,
              err |-> r.err]
        ELSE [ni |-> r.ni, trace |-> r.trace,
              pod |-> [r.newPod EXCEPT !.annotations = a3],
              newPod |-> [r.newPod EXCEPT !.annotations = a3],
              err |-> "none"])

Allocate(ni, p, now, fault) ==
    Bind(AllocateFrom(ni, p, DeepCopy(p), 1, <<>>, fault), LAMBDA r :
    LET a1 == SetAnnotation(r.newPod.annotations, <<"PredicateNode">>, <<"node">>)
        a2 == SetAnnotation(a1, <<"GPUAssigned">>, <<"false">>)
        a3 == SetAnnotation(a2, <<"PredicateTimeAnnotation">>, Itoa(now))
    IN  IF r.err # "none"
        THEN [ni |-> r.ni, trace |-> r.trace, pod |-> p, newPod |-> Nil,
              err |-> r.err]
        ELSE [ni |-> r.ni, trace |-> r.trace, pod |-> p,
              newPod |-> [r.newPod EXCEPT !.annotations = a3],
              err |-> "none"])

----------------------------------------------------------------------------
(* Inputs *)

DevStates ==
    { <<40, 40, 0, 2>>, <<80, 80, 0, 0>>, <<10, 10, 5, 1>>,
      <<100, 100, 0, 0>>, <<0, 0, 20, 3>>, <<80, 40, 5, 0>> }

DeviceMaps(states, lo, hi) ==
    UNION { { [i \in 0..(n - 1) |-> Device(i, f[i][1], f[i][2], f[i][3], f[i][4])] :
                f \in [0..(n - 1) -> states] } : n \in lo..hi }

EvalRequests ==
    { [cores |-> 20, memory |-> 20, estimatedTime |-> 10],
      [cores |-> 99, memory |-> 200, estimatedTime |-> 0] }

NoEval == [panic |-> FALSE, devs |-> <<>>, RC |-> <<>>, done |-> FALSE,
           again |-> FALSE, first |-> <<>>, snapshot |-> <<>>]

NoCall == [op |-> "none", ok |-> FALSE, trace |-> <<>>, newPod |-> Nil,
           before |-> NodeInfo(<<>>, 0), input |-> Nil, now |-> 0]

NoConc == [serialized |-> FALSE, lock |-> 0, order |-> <<>>, procs |-> <<>>]

(* An allocator call as it is remembered: what it was, what it returned,
   the registry it started from (ni) and the AllocateOne calls it made *)
HistEntry(op, ok, ni, trace) ==
    [op |-> op, ok |-> ok, usedCore |-> ni.usedCore, usedMemory |-> ni.usedMemory,
     before |-> ni, trace |-> trace]

NoPod == [containers |-> <<>>, annotations |-> {}, nil |-> FALSE]

(* A node the allocator is built for: each device's memory is the node's
   capacity divided by the device count *)
AllocDevStates == { <<100, 100, 0, 0>>, <<40, 40, 0, 2>>, <<10, 10, 5, 1>> }

DeviceMemory == 100

ContainerKinds ==
    { Container(FALSE, 0, 0, 0, FALSE),
      Container(TRUE, 20, 20, 10, FALSE),
      Container(TRUE, 99, 10, 0, FALSE),
      Container(TRUE, 100, 10, 10, FALSE),
      Container(TRUE, 200, 10, 10, FALSE),
      Container(TRUE, 20, 20, 10, TRUE) }

Pods ==
    UNION { { [containers |-> cs, annotations |-> {}, nil |-> FALSE] :
                cs \in [1..n -> ContainerKinds] } : n \in 1..MaxContainers }

----------------------------------------------------------------------------
(* The registry's own refusals: none (0), or of the k-th AddUsedResources
   call of an allocator call, for the calls it makes when none is refused *)
Faults(trace) ==
    { k \in 0..MaxFault : k <= CountAdds(trace) }

(* SpecEval: shareMode.Evaluate called on one device map with one request,
   once and then again; evalOut holds what the last call produced, whether
   it was a repeated call (again), what the first call returned and the
   registry the first call read *)

InitEval ==
    /\ nodeInfo \in { NodeInfo(ds, DeviceMemory) :
                        ds \in DeviceMaps(DevStates, 0, MaxDev) }
    /\ pod = NoPod
    /\ call = NoCall
    /\ hist = <<>>
    /\ clock = 0
    /\ evalReq \in EvalRequests
    /\ evalOut = NoEval
    /\ conc = NoConc

DoEvaluate ==
    /\ \E r \in {Evaluate(nodeInfo.devs, evalReq.cores, evalReq.memory,
                             evalReq.estimatedTime)} :
           evalOut' = [panic |-> r.panic, devs |-> r.devs, RC |-> r.RC,
                       done |-> TRUE,
                       again |-> evalOut.done,
                       first |-> IF evalOut.done THEN evalOut.first
                                 ELSE r.devs,
                       snapshot |-> IF evalOut.done THEN evalOut.snapshot
                                    ELSE nodeInfo]
    /\ UNCHANGED <<nodeInfo, pod, call, hist, clock, evalReq, conc>>

NextEval == DoEvaluate

SpecEval == InitEval /\ [][NextEval]_vars

----------------------------------------------------------------------------
(* Spec: the allocator of one node, called for one workload *)

Init ==
    /\ nodeInfo \in { NodeInfo(ds, DeviceMemory) :
                        ds \in DeviceMaps(AllocDevStates, 1, MaxDev - 1) }
    /\ pod \in Pods
    /\ call = NoCall
    /\ hist = <<>>
    /\ clock = 1
    /\ evalReq = [cores |-> 0, memory |-> 0, estimatedTime |-> 0]
    /\ evalOut = NoEval
    /\ conc = NoConc

CallIsAllocatable ==
    /\ Len(hist) < MaxCalls
    /\ \E fault \in Faults(IsAllocatable(nodeInfo, pod, 0).trace) :
        \E r \in {IsAllocatable(nodeInfo, pod, fault)} :
            /\ nodeInfo' = r.ni
            /\ call' = [op |-> "IsAllocatable", ok |-> r.allocatable,
                        trace |-> r.trace, newPod |-> Nil, before |-> nodeInfo,
                        input |-> pod, now |-> clock]
            /\ hist' = Append(hist, HistEntry("IsAllocatable", r.allocatable, nodeInfo,
                                               r.trace))
    /\ UNCHANGED <<pod, clock, evalReq, evalOut, conc>>

CallAllocate ==
    /\ Len(hist) < MaxCalls
    /\ \E fault \in Faults(Allocate(nodeInfo, pod, clock, 0).trace) :
        \E r \in {Allocate(nodeInfo, pod, clock, fault)} :
            /\ nodeInfo' = r.ni
            /\ pod' = r.pod
            /\ call' = [op |-> "Allocate", ok |-> r.err = "none",
                        trace |-> r.trace, newPod |-> r.newPod,
                        before |-> nodeInfo, input |-> pod, now |-> clock]
            /\ hist' = Append(hist, HistEntry("Allocate", r.err = "none", nodeInfo,
                                               r.trace))
    /\ clock' = clock + 1
    /\ UNCHANGED <<evalReq, evalOut, conc>>

Next == CallIsAllocatable \/ CallAllocate

Spec == Init /\ [][Next]_vars

----------------------------------------------------------------------------
(* SpecConc: NumProcs callers, each in one AllocateOne call for a container
   of its own on the same node.  The code takes no lock: a call reads the
   device state in the evaluator (lines 110-116) and writes it in the commit
   loop (lines 132-140), and another call may run in between.  With
   conc.serialized the callers hold a per-node lock around the whole call,
   as the registry's users are expected to. *)

Procs == 1..NumProcs

ConcContainers ==
    { Container(TRUE, 20, 20, 10, FALSE),
      Container(TRUE, 99, 10, 0, FALSE),
      Container(TRUE, 100, 10, 10, FALSE) }

ConcProc(c, ni) ==
    [pc |-> "idle", container |-> c, seen |-> ni, evaluated |-> <<>>,
     adds |-> <<>>, err |-> "none", left |-> ni]

InitConc ==
    /\ nodeInfo \in { NodeInfo(ds, DeviceMemory) :
                        ds \in DeviceMaps(AllocDevStates, 1, MaxDev - 1) }
    /\ pod = NoPod
    /\ call = NoCall
    /\ hist = <<>>
    /\ clock = 0
    /\ evalReq = [cores |-> 0, memory |-> 0, estimatedTime |-> 0]
    /\ evalOut = NoEval
    /\ \E s \in BOOLEAN, cs \in [Procs -> ConcContainers] :
          conc = [serialized |-> s, lock |-> 0, order |-> <<>>,
                  procs |-> [p \in Procs |-> ConcProc(cs[p], nodeInfo)]]

ConcPod(p) ==
    [containers |-> <<conc.procs[p].container>>, annotations |-> {},
     nil |-> FALSE]

(* The call returning before its bookings are made: the caller's lock is
   gone when the commit loop runs *)
ConcEvaluateEarlyReturn(p) ==
    /\ conc.procs[p].pc = "idle"
    /\ conc.serialized => conc.lock = 0
    /\ \E d \in {Dispatch(nodeInfo, conc.procs[p].container.cores,
                            conc.procs[p].container.memory,
                            GetEstimatedTimeOfContainer(ConcPod(p), 0).value)} :
          conc' = [conc EXCEPT
                     !.lock = 0,
                     !.order = Append(@, p),
                     !.procs[p].pc = IF Len(d.devs) = 0 THEN "done" ELSE "selected",
                     !.procs[p].seen = nodeInfo,
                     !.procs[p].left = nodeInfo,
                     !.procs[p].evaluated = d.devs,
                     !.procs[p].err = IF Len(d.devs) = 0 THEN "nodevice" ELSE "none"]
    /\ UNCHANGED <<nodeInfo, pod, call, hist, clock, evalReq, evalOut>>

(* lines 93-120: the call reads the request and the device state, and the
   evaluator selects the devices *)
ConcEvaluate(p) ==
    /\ conc.procs[p].pc = "idle"
    /\ conc.serialized => conc.lock = 0
    /\ \E d \in {Dispatch(nodeInfo, conc.procs[p].container.cores,
                            conc.procs[p].container.memory,
                            GetEstimatedTimeOfContainer(ConcPod(p), 0).value)} :
          conc' = [conc EXCEPT
                     !.lock = IF conc.serialized /\ Len(d.devs) # 0 THEN p ELSE 0,
                     !.order = Append(@, p),
                     !.procs[p].pc = IF Len(d.devs) = 0 THEN "done" ELSE "selected",
                     !.procs[p].seen = nodeInfo,
                     !.procs[p].left = nodeInfo,
                     !.procs[p].evaluated = d.devs,
                     !.procs[p].err = IF Len(d.devs) = 0 THEN "nodevice" ELSE "none"]
    /\ UNCHANGED <<nodeInfo, pod, call, hist, clock, evalReq, evalOut>>

(* lines 122-141: the call books the selected devices and returns *)
ConcCommit(p) ==
    /\ conc.procs[p].pc = "selected"
    /\ LET c == conc.procs[p].container
           sharedMode == c.cores < HundredCore
           vcore == IF sharedMode THEN c.cores ELSE HundredCore
           vmemory == IF sharedMode THEN c.memory
                      ELSE nodeInfo.totalMemory \div DeviceCount(nodeInfo.devs)
       IN  \E r \in {CommitLoop(nodeInfo, conc.procs[p].evaluated, 1, vcore,
                                 vmemory, CommitTime(c.estimatedTime), 0, 0)} :
             /\ nodeInfo' = r.ni
             /\ conc' = [conc EXCEPT
                           !.lock = 0,
                           !.procs[p].pc = "done",
                           !.procs[p].adds = r.adds,
                           !.procs[p].left = r.ni,
                           !.procs[p].err = IF r.err THEN "commit" ELSE "none"]
    /\ UNCHANGED <<pod, call, hist, clock, evalReq, evalOut>>

NextConc == \E p \in Procs : ConcEvaluate(p) \/ ConcCommit(p)

SpecConc == InitConc /\ [][NextConc]_vars

----------------------------------------------------------------------------
(* Properties of shareMode.Evaluate (SpecEval) *)

Devices == { nodeInfo.devs[i] : i \in DOMAIN nodeInfo.devs }

Evaluated == evalOut.done /\ ~evalOut.panic

Holds(d, req) == d.cores >= req.cores /\ d.mem >= req.memory

(* C1: for a node of at least one device and any request, Evaluate returns
   exactly one device, and it is a device of the node, whether or not any
   device can hold the request; on a node of one device it is that device. *)
C1_OneDeviceOfTheNode ==
    (evalOut.done /\ DeviceCount(nodeInfo.devs) >= 1) =>
        /\ ~evalOut.panic
        /\ Len(evalOut.devs) = 1
        /\ \E d \in Devices : d.id = evalOut.devs[1]
        /\ DeviceCount(nodeInfo.devs) = 1 => evalOut.devs = <<nodeInfo.devs[0].id>>

C1_Witness ==
    /\ Evaluated
    /\ DeviceCount(nodeInfo.devs) > 1
    /\ \A d \in Devices : ~Holds(d, evalReq)
    /\ Len(evalOut.devs) = 1

(* C7: Evaluate on a node of no device does not panic: it returns a defined
   result. *)
C7_NoPanicWithoutDevices ==
    (evalOut.done /\ DeviceCount(nodeInfo.devs) = 0) => ~evalOut.panic

(* The relative closeness of C8, from the devices themselves *)
Criteria(d) ==
    <<d.cores, d.mem,
      IF evalReq.estimatedTime > d.isolated
      THEN evalReq.estimatedTime - d.isolated ELSE 0,
      d.containers>>

ColumnValues(c) == { Criteria(d)[c] : d \in Devices }

SetMax(S) == CHOOSE x \in S : \A y \in S : y <= x

SetMin(S) == CHOOSE x \in S : \A y \in S : x <= y

Ideal == [c \in 1..NumCol |->
            IF c < NumCol THEN SetMax(ColumnValues(c)) ELSE SetMin(ColumnValues(c))]

AntiIdeal == [c \in 1..NumCol |->
            IF c < NumCol THEN SetMin(ColumnValues(c)) ELSE SetMax(ColumnValues(c))]

NormSq == [c \in 1..NumCol |->
            SumOver(LAMBDA d : Criteria(d)[c] * Criteria(d)[c], nodeInfo.devs,
                    DeviceCount(nodeInfo.devs))]

ScoreWith(d, K, ideal, anti) ==
    [smmax2 |-> BigTrim(DistSq(Criteria(d), K, ideal, NumCol)),
     smmin2 |-> BigTrim(DistSq(Criteria(d), K, anti, NumCol))]

Score(d) == ScoreWith(d, Scales(NormSq, NumCol), Ideal, AntiIdeal)

(* The scores of all devices, as pairs <<id, Score>> *)
Scores ==
    CHOOSE sc \in
        { { <<d.id, ScoreWith(d, t[1], t[2], t[3])>> : d \in Devices } :
            t \in { <<Scales(NormSq, NumCol),
                      <<Ideal[1], Ideal[2], Ideal[3], Ideal[4]>>,
                      <<AntiIdeal[1], AntiIdeal[2], AntiIdeal[3],
                        AntiIdeal[4]>>>> } } : TRUE

(* Score(d), read from a table of the devices' scores *)
ScoreIn(sc, d) == (CHOOSE p \in sc : p[1] = d.id)[2]

OrderedBefore(a, b) ==
    \/ a.cores < b.cores
    \/ a.cores = b.cores /\ a.mem < b.mem
    \/ a.cores = b.cores /\ a.mem = b.mem /\ a.id < b.id

Scenario ==
    ( 0 :> Device(0, 40, 40, 0, 2) @@ 1 :> Device(1, 80, 80, 0, 0)
      @@ 2 :> Device(2, 10, 10, 5, 1) )

(* C8: the device Evaluate returns has the greatest relative closeness: no
   device scores strictly higher, and every device before it in the
   ordering by (cores, memory, id) scores strictly lower.  For D1(40,40,0,2),
   D2(80,80,0,0), D3(10,10,5,1) and estimated time 10 it is D2. *)
C8_MaximalClosenessEarliest ==
    (evalOut.done /\ DeviceCount(nodeInfo.devs) >= 1) =>
        /\ \E sc \in {Scores} :
            \E r \in Devices :
              /\ evalOut.devs = <<r.id>>
              /\ \A e \in Devices :
                  /\ ~Greater(ScoreIn(sc, e), ScoreIn(sc, r))
                  /\ OrderedBefore(e, r) =>
                        Greater(ScoreIn(sc, r), ScoreIn(sc, e))
        /\ (nodeInfo.devs = Scenario /\ evalReq.estimatedTime = 10)
              => evalOut.devs = <<1>>

C8_Witness ==
    /\ Evaluated
    /\ nodeInfo.devs = Scenario
    /\ evalReq = [cores |-> 20, memory |-> 20, estimatedTime |-> 10]
    /\ evalOut.devs = <<1>>

(* The value of RC[i] = SMmin[i] / (SMmax[i] + SMmin[i]) where it is one of
   the two ends of the scale or no number at all *)
RCValue(rc) ==
    CASE IsNaN(rc) -> "NaN"
      [] rc.smmin2 = <<>> -> "0"
      [] rc.smmax2 = <<>> -> "1"
      [] OTHER -> "between"

(* The device map with k more containers running on device i, every other
   entry as it is *)
Raised(ds, i, k) == [ds EXCEPT ![i].containers = @ + k]

(* The row of tmpStore that holds device i after the sort; the container
   count is not a sort key, so the row is the same in Raised(ds, i, k) *)
RowOf(ds, i) ==
    Bind(Sort(TmpStore(ds)),
         LAMBDA store : CHOOSE j \in 1..Len(store) : store[j].id = i)

(* RC of device i as Evaluate computes it on the device map ds *)
RCOf(ds, i) ==
    Evaluate(ds, evalReq.cores, evalReq.memory,
             evalReq.estimatedTime).RC[RowOf(ds, i)]

(* C11: more containers running on a device, everything else in the decision
   matrix unchanged, never gives the device a greater relative closeness
   than Evaluate computed for it. *)
C11_MoreContainersNeverCloser ==
    (Evaluated /\ ~evalOut.again) =>
        \A i \in DOMAIN nodeInfo.devs : \A k \in 1..MaxRaise :
            ~Greater(RCOf(Raised(nodeInfo.devs, i, k), i),
                     evalOut.RC[RowOf(nodeInfo.devs, i)])

C11_Witness ==
    /\ Evaluated
    /\ DeviceCount(nodeInfo.devs) = MaxDev
    /\ \E i \in DOMAIN nodeInfo.devs :
          /\ RCValue(evalOut.RC[RowOf(nodeInfo.devs, i)]) = "between"
          /\ Greater(evalOut.RC[RowOf(nodeInfo.devs, i)],
                     RCOf(Raised(nodeInfo.devs, i, MaxRaise), i))

(* C12: Evaluate called again on the same device snapshot with the same
   request returns the same device, and the registry is as the first call
   found it.  The comparator chain leaves sort.Sort one possible outcome for
   devices of distinct ids, and Evaluate returns the same device from every
   outcome sort.Sort may produce. *)
C12_SameSnapshotSameDevice ==
    (evalOut.done /\ DeviceCount(nodeInfo.devs) >= 1) =>
        /\ nodeInfo = evalOut.snapshot
        /\ evalOut.devs = evalOut.first
        /\ SortResults(TmpStore(nodeInfo.devs)) = {Sort(TmpStore(nodeInfo.devs))}
        /\ \A s \in SortResults(TmpStore(nodeInfo.devs)) :
              EvaluateSorted(s, evalReq.estimatedTime).devs = evalOut.devs

C12_Witness ==
    /\ evalOut.again
    /\ ~evalOut.panic
    /\ evalOut.devs = evalOut.first
    /\ \E a, b \in Devices :
          a.id # b.id /\ a.cores = b.cores /\ a.mem = b.mem
            /\ evalOut.devs = <<a.id>>

(* C18: a device whose distances to the ideal and to the anti-ideal are both
   zero (all devices alike in every column, a single device among them) has
   a relative closeness of 0 or of 1, by convention, and not the result of
   dividing zero by zero. *)
C18_DegenerateScoreDefined ==
    Evaluated =>
        \A i \in 1..Len(evalOut.RC) :
            (evalOut.RC[i].smmax2 = <<>> /\ evalOut.RC[i].smmin2 = <<>>) =>
                RCValue(evalOut.RC[i]) \in {"0", "1"}

----------------------------------------------------------------------------
(* Properties of the allocator (Spec) *)

(* The 0-based indices of the GPU-requesting containers, in order *)
RECURSIVE GPUIndices(_, _)
GPUIndices(cs, i) ==
    IF i = 0 THEN <<>>
    ELSE GPUIndices(cs, i - 1) \o
         (IF cs[i].gpu THEN <<i - 1>> ELSE <<>>)

(* What a sequence of AddUsedResources calls booked *)
RECURSIVE BookedBy(_)
BookedBy(adds) ==
    IF adds = <<>> THEN [cores |-> 0, memory |-> 0]
    ELSE LET rest == BookedBy(Tail(adds))
         IN  IF Head(adds).err THEN rest
             ELSE [cores |-> rest.cores + Head(adds).vcore,
                   memory |-> rest.memory + Head(adds).vmemory]

RECURSIVE AllAdds(_)
AllAdds(trace) ==
    IF trace = <<>> THEN <<>> ELSE Head(trace).adds \o AllAdds(Tail(trace))

(* The registry an AllocateOne call of the last allocator call started from *)
Before(j) == IF j = 1 THEN call.before ELSE call.trace[j - 1].ni

(* The container an AllocateOne call of the last allocator call was for *)
ContainerOf(j) == pod.containers[call.trace[j].index + 1]

(* The quantities a workload commits when every container is allocated: the
   request in share mode, 100 cores and the device's memory quota for each
   of the cores/100 devices in exclusive mode *)
RECURSIVE Committed(_, _)
Committed(cs, quota) ==
    IF cs = <<>> THEN [cores |-> 0, memory |-> 0]
    ELSE LET rest == Committed(Tail(cs), quota)
             c == Head(cs)
         IN  IF ~c.gpu THEN rest
             ELSE IF c.cores < 100
             THEN [cores |-> rest.cores + c.cores,
                   memory |-> rest.memory + c.memory]
             ELSE [cores |-> rest.cores + 100 * (c.cores \div 100),
                   memory |-> rest.memory + quota * (c.cores \div 100)]

PodCommits ==
    Committed(pod.containers,
              nodeInfo.totalMemory \div DeviceCount(nodeInfo.devs))

Succeeded(k) ==
    /\ Len(hist) = k
    /\ \A j \in 1..k : hist[j].op = "IsAllocatable" /\ hist[j].ok

(* C2: IsAllocatable is not read-only.  What its AllocateOne calls book
   stays on the node when it returns, whatever it returns; after one call
   that returned true the node holds the workload's committed cores and
   memory on top of what it held, and after a second such call on the same
   workload twice that. *)
C2_IsAllocatableDoubleBooks ==
    /\ call.op = "IsAllocatable" =>
          /\ nodeInfo.usedCore =
                call.before.usedCore + BookedBy(AllAdds(call.trace)).cores
          /\ nodeInfo.usedMemory =
                call.before.usedMemory + BookedBy(AllAdds(call.trace)).memory
    /\ \A k \in 1..2 :
          Succeeded(k) =>
              /\ nodeInfo.usedCore = hist[1].usedCore + k * PodCommits.cores
              /\ nodeInfo.usedMemory = hist[1].usedMemory + k * PodCommits.memory

C2_Witness ==
    /\ Succeeded(2)
    /\ PodCommits.cores > 0
    /\ nodeInfo.usedCore = hist[1].usedCore + 2 * PodCommits.cores
    /\ hist[2].usedCore = hist[1].usedCore + PodCommits.cores

(* C3: when Allocate fails on the k-th GPU-requesting container it returns
   an error and no workload descriptor, it has tried the first k
   GPU-requesting containers in order and none after, and what it booked for
   the containers before the k-th is still booked. *)
C3_AllocateFailsWithoutRollback ==
    (call.op = "Allocate" /\ ~call.ok) =>
        LET k == Len(call.trace)
            gpu == GPUIndices(pod.containers, Len(pod.containers))
        IN  /\ call.newPod = Nil
            /\ k >= 1
            /\ k <= Len(gpu)
            /\ \A j \in 1..k : call.trace[j].index = gpu[j]
            /\ call.trace[k].err # "none"
            /\ \A j \in 1..(k - 1) :
                /\ call.trace[j].err = "none"
                /\ \A a \in 1..Len(call.trace[j].adds) :
                    LET add == call.trace[j].adds[a]
                    IN  /\ nodeInfo.devs[add.dev].cores
                              <= call.before.devs[add.dev].cores - add.vcore
                        /\ nodeInfo.devs[add.dev].mem
                              <= call.before.devs[add.dev].mem - add.vmemory
            /\ nodeInfo.usedCore =
                  call.before.usedCore + BookedBy(AllAdds(call.trace)).cores
            /\ nodeInfo.usedMemory =
                  call.before.usedMemory + BookedBy(AllAdds(call.trace)).memory

C3_Witness ==
    /\ call.op = "Allocate"
    /\ ~call.ok
    /\ Len(call.trace) = 2
    /\ call.trace[1].adds # <<>>
    /\ nodeInfo.usedCore = call.before.usedCore + call.trace[1].vcore
    /\ call.newPod = Nil

(* C5: AllocateOne picks the evaluator by the requested cores alone: under
   100 the share-mode evaluator, with (cores, memory, estimatedTime); 100 or
   more the exclusive-mode evaluator, with (cores, memory); exactly one of
   the two for every request whose lookup succeeded. *)
C5_DispatchByCores ==
    \A j \in 1..Len(call.trace) :
        LET t == call.trace[j]
            c == ContainerOf(j)
        IN  /\ t.err # "lookup" => t.evaluator \in {"share", "exclusive"}
            /\ t.evaluator = "share" <=> (t.err # "lookup" /\ c.cores < 100)
            /\ t.evaluator = "exclusive" <=> (t.err # "lookup" /\ c.cores >= 100)
            /\ t.evaluator = "share" =>
                  t.args = <<c.cores, c.memory, c.estimatedTime>>
            /\ t.evaluator = "exclusive" => t.args = <<c.cores, c.memory>>

C5_Witness ==
    /\ Len(call.trace) = 2
    /\ ContainerOf(1).cores = 99
    /\ call.trace[1].evaluator = "share"
    /\ ContainerOf(2).cores = 100
    /\ call.trace[2].evaluator = "exclusive"

(* C6: when the estimated-time lookup fails for a container, AllocateOne
   returns that error, runs no evaluator, calls no AddUsedResources and
   leaves the registry as it found it. *)
C6_LookupFailureTouchesNothing ==
    \A j \in 1..Len(call.trace) :
        ContainerOf(j).estErr =>
            /\ call.trace[j].err = "lookup"
            /\ call.trace[j].devs = <<>>
            /\ call.trace[j].evaluator = "none"
            /\ call.trace[j].adds = <<>>
            /\ call.trace[j].ni = Before(j)
            /\ j = Len(call.trace)
            /\ nodeInfo = Before(j)

C6_Witness ==
    /\ Len(call.trace) = 2
    /\ ContainerOf(2).estErr
    /\ call.trace[2].err = "lookup"
    /\ call.trace[1].adds # <<>>
    /\ nodeInfo = call.trace[1].ni

(* C9: every AddUsedResources call AllocateOne makes passes the committed
   cores and memory and an elapsed time of zero, whatever the container's
   estimated execution time. *)
C9_ElapsedTimeZero ==
    \A j \in 1..Len(call.trace) :
        \A a \in 1..Len(call.trace[j].adds) :
            /\ call.trace[j].adds[a].vcore = call.trace[j].vcore
            /\ call.trace[j].adds[a].vmemory = call.trace[j].vmemory
            /\ call.trace[j].adds[a].time = 0

(* C10: IsAllocatable tries the GPU-requesting containers in index order,
   stops at the first AllocateOne that fails and returns false, returns true
   when none fails, and neither tries nor books anything for a container
   that requests no GPU. *)
C10_IsAllocatableIffAllSucceed ==
    call.op = "IsAllocatable" =>
        LET k == Len(call.trace)
            gpu == GPUIndices(pod.containers, Len(pod.containers))
        IN  /\ k <= Len(gpu)
            /\ \A j \in 1..k : call.trace[j].index = gpu[j]
            /\ \A j \in 1..(k - 1) : call.trace[j].err = "none"
            /\ call.ok <=>
                  (k = Len(gpu) /\ \A j \in 1..k : call.trace[j].err = "none")
            /\ ~call.ok => call.trace[k].err # "none"
            /\ nodeInfo.usedCore =
                  call.before.usedCore + BookedBy(AllAdds(call.trace)).cores
            /\ nodeInfo = IF k = 0 THEN call.before ELSE call.trace[k].ni

C10_Witness ==
    /\ call.op = "IsAllocatable"
    /\ ~call.ok
    /\ Len(pod.containers) = 2
    /\ pod.containers[1].gpu
    /\ pod.containers[2].gpu
    /\ Len(call.trace) = 1

(* The per-device memory quota: the node's vmemory capacity divided by its
   device count *)
Quota == call.before.totalMemory \div Cardinality(DOMAIN call.before.devs)

(* C14: every AddUsedResources call of an AllocateOne call books, in share
   mode (requested cores under 100), the requested cores and memory; in
   exclusive mode 100 cores and the per-device memory quota, whatever memory
   was requested.  A call that succeeds has booked that on every device the
   evaluator returned, in the order returned, and the registry it leaves
   holds each of them that much lower. *)
C14_BookedQuantities ==
    \A j \in 1..Len(call.trace) :
        LET t == call.trace[j]
            c == ContainerOf(j)
        IN  /\ \A a \in 1..Len(t.adds) :
                  /\ t.adds[a].dev = t.evaluated[a]
                  /\ c.cores < 100 =>
                        /\ t.adds[a].vcore = c.cores
                        /\ t.adds[a].vmemory = c.memory
                  /\ c.cores >= 100 =>
                        /\ t.adds[a].vcore = 100
                        /\ t.adds[a].vmemory = Quota
            /\ t.err = "none" =>
                  /\ Len(t.adds) = Len(t.evaluated)
                  /\ t.devs = t.evaluated
                  /\ \A a \in 1..Len(t.adds) :
                        LET d == t.adds[a].dev
                        IN  /\ t.ni.devs[d].cores =
                                  Before(j).devs[d].cores - t.adds[a].vcore
                            /\ t.ni.devs[d].mem =
                                  Before(j).devs[d].mem - t.adds[a].vmemory

C14_Witness ==
    /\ Len(call.trace) = 1
    /\ call.trace[1].err = "none"
    /\ ContainerOf(1).cores = 200
    /\ Len(call.trace[1].adds) = 2
    /\ ContainerOf(1).memory # Quota
    /\ \A a \in 1..2 :
          /\ call.trace[1].adds[a].vcore = 100
          /\ call.trace[1].adds[a].vmemory = Quota
          /\ nodeInfo.devs[call.trace[1].adds[a].dev].mem = 0

(* The devices the first n AddUsedResources calls of a sequence were for *)
AddDevs(adds, n) == { adds[a].dev : a \in 1..n }

(* C15: when the registry refuses the booking for the j-th device an
   AllocateOne call commits to, the call returns the error and no devices,
   has made no AddUsedResources call for the devices after the j-th, and
   leaves the j-1 devices before it booked: the registry is the one the call
   found with exactly those bookings on it, and the enclosing allocator
   call ends there. *)
C15_CommitFailureKeepsEarlier ==
    \A i \in 1..Len(call.trace) :
        LET t == call.trace[i]
            j == Len(t.adds)
        IN  t.err = "commit" =>
              /\ t.devs = <<>>
              /\ j >= 1
              /\ j <= Len(t.evaluated)
              /\ \A a \in 1..j : t.adds[a].dev = t.evaluated[a]
              /\ t.adds[j].err
              /\ \A a \in 1..(j - 1) : ~t.adds[a].err
              /\ \A d \in DOMAIN t.ni.devs :
                    IF d \in AddDevs(t.adds, j - 1)
                    THEN /\ t.ni.devs[d].cores = Before(i).devs[d].cores - t.vcore
                         /\ t.ni.devs[d].mem = Before(i).devs[d].mem - t.vmemory
                         /\ t.ni.devs[d].containers =
                               Before(i).devs[d].containers + 1
                    ELSE t.ni.devs[d] = Before(i).devs[d]
              /\ t.ni.usedCore = Before(i).usedCore + (j - 1) * t.vcore
              /\ t.ni.usedMemory = Before(i).usedMemory + (j - 1) * t.vmemory
              /\ i = Len(call.trace)
              /\ ~call.ok
              /\ nodeInfo = t.ni

C15_Witness ==
    /\ Len(call.trace) = 1
    /\ call.trace[1].err = "commit"
    /\ Len(call.trace[1].evaluated) = 2
    /\ Len(call.trace[1].adds) = 2
    /\ call.trace[1].devs = <<>>
    /\ nodeInfo.devs[call.trace[1].adds[1].dev].cores = 0
    /\ nodeInfo.devs[call.trace[1].adds[2].dev].cores = 100
    /\ nodeInfo.usedCore = call.before.usedCore + 100

(* C16: when the evaluator AllocateOne ran returns no devices, the call
   fails with the allocation error that names its container, returns no
   devices, makes no AddUsedResources call and leaves the registry as it
   found it; on a node with at least one device that happens only after the
   exclusive-mode evaluator: the share-mode evaluator always returns one
   device. *)
C16_NoDeviceFailsBooksNothing ==
    \A j \in 1..Len(call.trace) :
        LET t == call.trace[j]
        IN  /\ (t.evaluator # "none" /\ t.evaluated = <<>>) =>
                  /\ t.err = "nodevice"
                  /\ t.named = t.index
                  /\ call.input.containers[t.named + 1] = ContainerOf(j)
                  /\ t.devs = <<>>
                  /\ t.adds = <<>>
                  /\ t.ni = Before(j)
                  /\ j = Len(call.trace)
                  /\ ~call.ok
                  /\ nodeInfo = Before(j)
            /\ t.err = "nodevice" =>
                  /\ t.evaluated = <<>>
                  /\ t.evaluator = "exclusive"
                  /\ ContainerOf(j).cores >= 100
            /\ t.evaluator = "share" => Len(t.evaluated) = 1

C16_Witness ==
    /\ Len(call.trace) = 2
    /\ call.trace[1].evaluator = "share"
    /\ call.trace[1].err = "none"
    /\ call.trace[2].evaluator = "exclusive"
    /\ call.trace[2].evaluated = <<>>
    /\ call.trace[2].err = "nodevice"
    /\ call.trace[2].named = 1
    /\ nodeInfo = call.trace[1].ni

(* What the successful AddUsedResources calls of a sequence booked on
   device d *)
RECURSIVE BookedOn(_, _)
BookedOn(adds, d) ==
    IF adds = <<>> THEN [cores |-> 0, memory |-> 0]
    ELSE LET rest == BookedOn(Tail(adds), d)
         IN  IF Head(adds).err \/ Head(adds).dev # d THEN rest
             ELSE [cores |-> rest.cores + Head(adds).vcore,
                   memory |-> rest.memory + Head(adds).vmemory]

(* The AddUsedResources calls of the first n allocator calls, in order *)
RECURSIVE HistAdds(_)
HistAdds(n) ==
    IF n = 0 THEN <<>> ELSE HistAdds(n - 1) \o AllAdds(hist[n].trace)

(* C17: an Allocate or IsAllocatable call handles the GPU-requesting
   containers in index order; the evaluator run for a container reads the
   registry the previous container's AllocateOne left, in which every
   device is lower by what the earlier containers of the call booked on it;
   and a later allocator call starts from a registry in which every device
   is lower by everything the earlier calls booked on it. *)
C17_LaterSeesEarlierBookings ==
    LET gpu == GPUIndices(pod.containers, Len(pod.containers))
        n == Len(hist)
    IN  /\ \A j \in 1..Len(call.trace) :
              LET t == call.trace[j]
                  c == ContainerOf(j)
                  earlier == AllAdds(SubSeq(call.trace, 1, j - 1))
              IN  /\ t.index = gpu[j]
                  /\ t.evaluator # "none" =>
                        t.evaluated =
                          Dispatch(Before(j), c.cores, c.memory,
                                   c.estimatedTime).devs
                  /\ \A d \in DOMAIN call.before.devs :
                        /\ Before(j).devs[d].cores =
                              call.before.devs[d].cores
                                - BookedOn(earlier, d).cores
                        /\ Before(j).devs[d].mem =
                              call.before.devs[d].mem
                                - BookedOn(earlier, d).memory
        /\ n >= 1 =>
              /\ hist[n].before = call.before
              /\ hist[n].trace = call.trace
              /\ \A d \in DOMAIN call.before.devs :
                    /\ call.before.devs[d].cores =
                          hist[1].before.devs[d].cores
                            - BookedOn(HistAdds(n - 1), d).cores
                    /\ call.before.devs[d].mem =
                          hist[1].before.devs[d].mem
                            - BookedOn(HistAdds(n - 1), d).memory
                    /\ nodeInfo.devs[d].cores =
                          hist[1].before.devs[d].cores
                            - BookedOn(HistAdds(n), d).cores

C17_Witness ==
    /\ Len(hist) = 2
    /\ hist[1].trace # <<>>
    /\ BookedOn(HistAdds(1), 0).cores > 0
    /\ call.before.devs[0].cores < hist[1].before.devs[0].cores
    /\ Len(call.trace) = 2
    /\ call.trace[1].err = "none"
    /\ call.trace[2].err = "none"
    /\ call.trace[2].evaluator = "share"
    /\ call.trace[2].evaluated # call.trace[1].evaluated
    /\ call.trace[2].evaluated #
          Dispatch(call.before, ContainerOf(2).cores, ContainerOf(2).memory,
                   ContainerOf(2).estimatedTime).devs

(* Reading an annotation back: a decimal number, a comma-separated list *)
DigitValue(ch) ==
    CASE ch = "0" -> 0 [] ch = "1" -> 1 [] ch = "2" -> 2 [] ch = "3" -> 3
      [] ch = "4" -> 4 [] ch = "5" -> 5 [] ch = "6" -> 6 [] ch = "7" -> 7
      [] ch = "8" -> 8 [] ch = "9" -> 9

RECURSIVE ParseInt(_)
ParseInt(chars) ==
    IF Len(chars) = 1 THEN DigitValue(chars[1])
    ELSE 10 * ParseInt(SubSeq(chars, 1, Len(chars) - 1))
           + DigitValue(chars[Len(chars)])

RECURSIVE ParseIDs(_, _)
ParseIDs(chars, cur) ==
    IF chars = <<>> THEN (IF cur = <<>> THEN <<>> ELSE <<ParseInt(cur)>>)
    ELSE IF Head(chars) = "," THEN <<ParseInt(cur)>> \o ParseIDs(Tail(chars), <<>>)
    ELSE ParseIDs(Tail(chars), Append(cur, Head(chars)))

Values(ann, key) == { kv[2] : kv \in { x \in ann : x[1] = key } }

IsIndexKey(key) == Head(key) = "PredicateGPUIndexPrefix"

(* C13: a successful Allocate returns a descriptor with the caller's
   containers, one annotation for each GPU-requesting container (the prefix
   followed by the container's index, the ids of the devices AllocateOne
   returned for it as decimals joined by commas), none for the others, and
   once the node name, the assigned flag "false" and the time of the call;
   the caller's own descriptor is what it was, whether Allocate succeeds or
   fails. *)
C13_AnnotatedCopyInputUntouched ==
    call.op = "Allocate" =>
        /\ pod = call.input
        /\ call.ok =>
            LET ann == call.newPod.annotations
                gpu == GPUIndices(pod.containers, Len(pod.containers))
            IN  /\ ~call.newPod.nil
                /\ call.newPod.containers = call.input.containers
                /\ Len(call.trace) = Len(gpu)
                /\ \A j \in 1..Len(gpu) :
                      \E kv \in ann :
                        /\ IsIndexKey(kv[1])
                        /\ ParseInt(Tail(kv[1])) = gpu[j]
                        /\ call.trace[j].index = gpu[j]
                        /\ ParseIDs(kv[2], <<>>) = call.trace[j].devs
                        /\ Values(ann, kv[1]) = {kv[2]}
                /\ \A kv \in ann :
                      IsIndexKey(kv[1]) =>
                        \E j \in 1..Len(gpu) : ParseInt(Tail(kv[1])) = gpu[j]
                /\ Values(ann, <<"PredicateNode">>) = {<<"node">>}
                /\ Values(ann, <<"GPUAssigned">>) = {<<"false">>}
                /\ \E t \in Values(ann, <<"PredicateTimeAnnotation">>) :
                      /\ Values(ann, <<"PredicateTimeAnnotation">>) = {t}
                      /\ ParseInt(t) = call.now
                /\ Cardinality(ann) = Len(gpu) + 3

C13_Witness ==
    /\ call.op = "Allocate"
    /\ call.ok
    /\ Len(pod.containers) = 2
    /\ Len(call.trace) = 2
    /\ <<<<"PredicateGPUIndexPrefix", "0">>, <<"0">>>> \in call.newPod.annotations
    /\ <<<<"PredicateGPUIndexPrefix", "1">>, <<"1">>>> \in call.newPod.annotations
    /\ Cardinality(call.newPod.annotations) = 5
    /\ pod.annotations = {}

----------------------------------------------------------------------------
(* Properties of concurrent AllocateOne calls (SpecConc) *)

InWindow(p) == conc.procs[p].pc = "selected"

(* What a call books on each device it selected *)
ConcBooks(p) ==
    LET c == conc.procs[p].container
    IN  IF c.cores < 100
        THEN [cores |-> c.cores, memory |-> c.memory]
        ELSE [cores |-> 100,
              memory |-> nodeInfo.totalMemory \div DeviceCount(nodeInfo.devs)]

Selected(p, d) ==
    \E k \in 1..Len(conc.procs[p].evaluated) : conc.procs[p].evaluated[k] = d

(* C4: with the calls serialized per node, no two calls are between their
   evaluation and their commit at once, and each call evaluates against
   exactly the state the call before it left, which holds that call's
   bookings.  (Without serialization two calls can both select the same
   device from the same pre-commit state: C4_Witness.) *)
C4_SerializedSeesEarlierBooking ==
    conc.serialized =>
        /\ \A p, q \in DOMAIN conc.procs :
              (InWindow(p) /\ InWindow(q)) => p = q
        /\ \A i \in 1..(Len(conc.order) - 1) :
              LET q == conc.order[i]
                  p == conc.order[i + 1]
              IN  /\ conc.procs[q].pc = "done"
                  /\ conc.procs[p].seen = conc.procs[q].left
                  /\ conc.procs[q].err = "none" =>
                        \A d \in DOMAIN nodeInfo.devs :
                            Selected(q, d) =>
                              /\ conc.procs[p].seen.devs[d].cores =
                                    conc.procs[q].seen.devs[d].cores
                                      - ConcBooks(q).cores
                              /\ conc.procs[p].seen.devs[d].mem =
                                    conc.procs[q].seen.devs[d].mem
                                      - ConcBooks(q).memory

C4_Witness ==
    /\ ~conc.serialized
    /\ Len(conc.order) = 2
    /\ \A p \in DOMAIN conc.procs : InWindow(p)
    /\ \A p \in DOMAIN conc.procs : conc.procs[p].seen = nodeInfo
    /\ \E d \in DOMAIN nodeInfo.devs :
          /\ \A p \in DOMAIN conc.procs : Selected(p, d)
          /\ ConcBooks(1).cores + ConcBooks(2).cores > nodeInfo.devs[d].cores

====
